---- MODULE Spec2Model ----
(***************************************************************************)
(* A model of resolve(page_file) of conflicted_ac_page_resolver.py: the    *)
(* marker scan over the lines of the conflicted page, the reconstruction   *)
(* of "our" and "their" file, the JSON load of both, the comparison of the *)
(* annotations by ID, and the insertion of their annotations into ours by  *)
(* timestamp.                                                              *)
(*                                                                         *)
(* Abstractions: an annotation is written on one line of the page; the     *)
(* commas between the elements of the JSON array are part of those lines   *)
(* and are not modelled; a file is the sequence of the lines written to it.*)
(* Python's None is the integer -1 where an index may be None.             *)
(***************************************************************************)
EXTENDS Integers, Sequences, FiniteSets, TLC

\* ---------------------------------------------------------------- bounds

\* The longest input drawn from all sequences of lines.
MaxLines == 5

\* The most annotations in "our" and in "their" side of a generated page.
MaxRecs == 2

\* ------------------------------------------------------------- constants

HEAD_MARKER == "<<<<<<<"

SEPARATOR == "======="

MASTER_MARKER == ">>>>>>>"

None == -1

\* A key that a JSON object does not have.
Missing == "<missing>"

\* ------------------------------------------------------------ annotations

\* The instant a timestamp string denotes (datetime.fromisoformat).
fromisoformat(s) ==
    CASE s = "2020-01-01T10:00:00" -> 1
      [] s = "2020-01-02T10:00:00" -> 2
      [] OTHER -> 0

\* annotation["id"][-42:]: the last 42 characters of the id (the whole id
\* when it is not longer than that).
Last42(id) ==
    CASE id = "https://git.catma.de/CATMA_X" -> "CATMA_X"
      [] OTHER -> id

Annotation(id, ts) == [id |-> id, ts |-> ts]

\* The annotations of the generated pages, grouped by ID: no side of a
\* generated page holds two annotations of one group.
GroupX ==
    { Annotation("CATMA_X", "2020-01-01T10:00:00"),
      Annotation("CATMA_X", "2020-01-02T10:00:00"),
      Annotation("https://git.catma.de/CATMA_X", "2020-01-01T10:00:00") }

GroupY ==
    { Annotation("CATMA_Y", "2020-01-01T10:00:00"),
      Annotation("CATMA_Y", "2020-01-02T10:00:00") }

GroupZ ==
    { Annotation("CATMA_Z", "2020-01-01T10:00:00"),
      Annotation("CATMA_Z", Missing) }

GroupW == { Annotation(Missing, "2020-01-02T10:00:00") }

Annotations == GroupX \cup GroupY \cup GroupZ \cup GroupW

GroupOf(a) ==
    CASE a \in GroupX -> 1
      [] a \in GroupY -> 2
      [] a \in GroupZ -> 3
      [] OTHER -> 4

\* ------------------------------------------------------------------ lines

NoObj == Annotation("", "")

MarkerLine(text) == [tok |-> text, obj |-> NoObj]

OpenLine == [tok |-> "[", obj |-> NoObj]

CloseLine == [tok |-> "]", obj |-> NoObj]

ObjLine(a) == [tok |-> "{", obj |-> a]

HeadLine == MarkerLine("<<<<<<< HEAD")

SepLine == MarkerLine("=======")

MasterLine == MarkerLine(">>>>>>> master")

\* line.startswith(marker)
StartsWith(line, marker) ==
    \/ line.tok = "<<<<<<< HEAD" /\ marker = "<<<<<<<"
    \/ line.tok = "=======" /\ marker = "======="
    \/ line.tok = ">>>>>>> master" /\ marker = ">>>>>>>"

StartsWithAny(line) ==
    \/ StartsWith(line, HEAD_MARKER)
    \/ StartsWith(line, SEPARATOR)
    \/ StartsWith(line, MASTER_MARKER)

\* --------------------------------------------------------- Python helpers

\* s[a:b] with 0-based a, b; None as a is 0 and as b is len(s).
Slice(s, a, b) ==
    LET lo == IF a = None THEN 0 ELSE IF a > Len(s) THEN Len(s) ELSE a
        hi == IF b = None THEN Len(s) ELSE IF b > Len(s) THEN Len(s) ELSE b
    IN  IF hi <= lo THEN << >> ELSE [i \in 1..(hi - lo) |-> s[lo + i]]

\* list(range(a, b))
Range(a, b) == IF b <= a THEN << >> ELSE [i \in 1..(b - a) |-> a + i - 1]

\* list.insert(i, x) with 0-based i in 0..len
InsertAt(s, i, x) == Slice(s, 0, i) \o <<x>> \o Slice(s, i, None)

\* list.reverse()
Reverse(s) == [i \in 1..Len(s) |-> s[Len(s) + 1 - i]]

NoError == [type |-> "", args |-> << >>]

Exception(type, args) == [type |-> type, args |-> args]

\* "raise value": a value that is no exception (a str) cannot be raised, and
\* the statement raises TypeError instead.
Raise(value) ==
    IF value.type = "str"
    THEN Exception("TypeError", <<"exceptions must derive from BaseException">>)
    ELSE value

NotWritten == [written |-> FALSE, content |-> << >>]

Written(content) == [written |-> TRUE, content |-> content]

\* ------------------------------------------------------------------ state

VARIABLES
    lines,                          \* f.readlines() of the page file
    pc,                             \* the place resolve() has reached
    idx,                            \* the for loop's index over lines
    ours_start, ours_end, theirs_start, theirs_end,
    unconflicted_start_until_idx,
    unconflicted_end_from_idx,
    unconflicted_line_idxs,
    conflicts,
    next_expected_marker,
    our_file_lines, their_file_lines,
    our_file, their_file, merged_file,   \* the three files on disk
    our_annotations, their_annotations,
    their_new_annotations,
    new_idx,                        \* the outer insertion loop's position
    scan_idx,                       \* the inner enumerate()'s index
    was_added,
    stdout,                         \* what print() has written
    error                           \* the exception that ended the run

scanVars ==
    << idx, ours_start, ours_end, theirs_start, theirs_end,
       unconflicted_start_until_idx, unconflicted_end_from_idx,
       unconflicted_line_idxs, conflicts, next_expected_marker >>

fileVars == << our_file_lines, their_file_lines, our_file, their_file, merged_file >>

mergeVars ==
    << our_annotations, their_annotations, their_new_annotations,
       new_idx, scan_idx, was_added, stdout >>

vars == << lines, pc, scanVars, fileVars, mergeVars, error >>

\* ----------------------------------------------------------------- inputs

RECURSIVE SeqsUpTo(_, _)
SeqsUpTo(S, n) ==
    IF n = 0 THEN { << >> }
    ELSE LET shorter == SeqsUpTo(S, n - 1)
         IN  shorter \cup { Append(s, x) : s \in shorter, x \in S }

LineAlphabet ==
    { HeadLine, SepLine, MasterLine, OpenLine, CloseLine,
      ObjLine(Annotation("CATMA_X", "2020-01-01T10:00:00")) }

\* Every page of at most MaxLines lines.
ArbitraryPages == SeqsUpTo(LineAlphabet, MaxLines)

\* The collections of at most MaxRecs annotations with no ID twice.
Collections ==
    { c \in SeqsUpTo(Annotations, MaxRecs) :
        \A i, j \in 1..Len(c) : i # j => GroupOf(c[i]) # GroupOf(c[j]) }

ObjLines(c) == [i \in 1..Len(c) |-> ObjLine(c[i])]

\* The page git leaves when both sides have appended to the same array.
ConflictedPage(ours, theirs) ==
    <<OpenLine, HeadLine>> \o ObjLines(ours) \o <<SepLine>>
        \o ObjLines(theirs) \o <<MasterLine, CloseLine>>

ConflictedPages == { ConflictedPage(o, t) : o \in Collections, t \in Collections }

\* No annotation, or one annotation of the group.
AtMostOne(group) == { << >> } \cup { <<a>> : a \in group }

\* The pages with two conflicts and the lines of both sides between them.
TwoConflictPages ==
    { <<OpenLine, HeadLine>> \o ObjLines(o1) \o <<SepLine>> \o ObjLines(t1)
          \o <<MasterLine>> \o ObjLines(common)
          \o <<HeadLine>> \o ObjLines(o2) \o <<SepLine>> \o ObjLines(t2)
          \o <<MasterLine, CloseLine>> :
        o1 \in AtMostOne(GroupX), t1 \in AtMostOne(GroupX),
        common \in AtMostOne(GroupY),
        o2 \in AtMostOne(GroupZ), t2 \in AtMostOne(GroupZ) }

Pages == ArbitraryPages \cup ConflictedPages \cup TwoConflictPages

Init ==
    /\ lines \in Pages
    /\ pc = "scan"
    /\ idx = 0
    /\ ours_start = None
    /\ ours_end = None
    /\ theirs_start = None
    /\ theirs_end = None
    /\ unconflicted_start_until_idx = None
    /\ unconflicted_end_from_idx = None
    /\ unconflicted_line_idxs = << >>
    /\ conflicts = << >>
    /\ next_expected_marker = HEAD_MARKER
    /\ our_file_lines = << >>
    /\ their_file_lines = << >>
    /\ our_file = NotWritten
    /\ their_file = NotWritten
    /\ merged_file = NotWritten
    /\ our_annotations = << >>
    /\ their_annotations = << >>
    /\ their_new_annotations = << >>
    /\ new_idx = 0
    /\ scan_idx = 0
    /\ was_added = FALSE
    /\ stdout = << >>
    /\ error = NoError

\* ------------------------------------------------------------ marker scan

InScan == pc = "scan" /\ idx < Len(lines)

line == lines[idx + 1]

\* The "Expected marker ... on line n" string of the sanity check.
ExpectedMarkerMessage ==
    Exception("str", <<"Expected marker '", next_expected_marker,
                       "' but encountered '", line.tok,
                       "' on line ", ToString(idx + 1)>>)

\* range() up to and including the line of the marker.
UnconflictedBetween_Inclusive ==
    IF unconflicted_end_from_idx # None /\ unconflicted_end_from_idx < idx
    THEN unconflicted_line_idxs \o Range(unconflicted_end_from_idx, idx + 1)
    ELSE unconflicted_line_idxs

UnconflictedBetween ==
    IF unconflicted_end_from_idx # None /\ unconflicted_end_from_idx < idx
    THEN unconflicted_line_idxs \o Range(unconflicted_end_from_idx, idx)
    ELSE unconflicted_line_idxs

ScanHead ==
    /\ InScan
    /\ StartsWith(line, HEAD_MARKER) /\ next_expected_marker = HEAD_MARKER
    /\ ours_start' = idx + 1
    /\ next_expected_marker' = SEPARATOR
    /\ unconflicted_start_until_idx' =
           IF unconflicted_start_until_idx = None THEN idx
           ELSE unconflicted_start_until_idx
    /\ unconflicted_line_idxs' = UnconflictedBetween
    /\ idx' = idx + 1
    /\ UNCHANGED << lines, pc, ours_end, theirs_start, theirs_end,
                    unconflicted_end_from_idx, conflicts, fileVars, mergeVars, error >>

ScanSeparator ==
    /\ InScan
    /\ ~(StartsWith(line, HEAD_MARKER) /\ next_expected_marker = HEAD_MARKER)
    /\ StartsWith(line, SEPARATOR) /\ next_expected_marker = SEPARATOR
    /\ ours_end' = idx
    /\ theirs_start' = idx + 1
    /\ next_expected_marker' = MASTER_MARKER
    /\ idx' = idx + 1
    /\ UNCHANGED << lines, pc, ours_start, theirs_end, unconflicted_start_until_idx,
                    unconflicted_end_from_idx, unconflicted_line_idxs, conflicts,
                    fileVars, mergeVars, error >>

ScanMaster ==
    /\ InScan
    /\ ~(StartsWith(line, HEAD_MARKER) /\ next_expected_marker = HEAD_MARKER)
    /\ ~(StartsWith(line, SEPARATOR) /\ next_expected_marker = SEPARATOR)
    /\ StartsWith(line, MASTER_MARKER) /\ next_expected_marker = MASTER_MARKER
    /\ theirs_end' = idx
    /\ next_expected_marker' = HEAD_MARKER
    /\ unconflicted_end_from_idx' = idx + 1
    /\ conflicts' = Append(conflicts, <<ours_start, ours_end, theirs_start, idx>>)
    /\ idx' = idx + 1
    /\ UNCHANGED << lines, pc, ours_start, ours_end, theirs_start,
                    unconflicted_start_until_idx, unconflicted_line_idxs,
                    fileVars, mergeVars, error >>

NoBranchTaken ==
    /\ ~(StartsWith(line, HEAD_MARKER) /\ next_expected_marker = HEAD_MARKER)
    /\ ~(StartsWith(line, SEPARATOR) /\ next_expected_marker = SEPARATOR)
    /\ ~(StartsWith(line, MASTER_MARKER) /\ next_expected_marker = MASTER_MARKER)

UnexpectedMarker ==
    StartsWithAny(line) /\ ~StartsWith(line, next_expected_marker)

\* The else branch when its sanity check passes: the line is skipped.
ScanOther ==
    /\ InScan
    /\ NoBranchTaken
    /\ ~UnexpectedMarker
    /\ idx' = idx + 1
    /\ UNCHANGED << lines, pc, ours_start, ours_end, theirs_start, theirs_end,
                    unconflicted_start_until_idx, unconflicted_end_from_idx,
                    unconflicted_line_idxs, conflicts, next_expected_marker,
                    fileVars, mergeVars, error >>

\* The else branch when its sanity check fails: the raise statement.
ScanUnexpected ==
    /\ InScan
    /\ NoBranchTaken
    /\ UnexpectedMarker
    /\ error' = Raise(ExpectedMarkerMessage)
    /\ pc' = "failed"
    /\ UNCHANGED << lines, scanVars, fileVars, mergeVars >>

\* --------------------------------------------------------- reconstruction

\* The while loop of one conflict: the unconflicted lines that precede it.
RECURSIVE PopUnconflicted(_, _, _)
PopUnconflicted(deque, conflict, popped) ==
    IF Len(deque) > 0 /\ deque[1] < conflict[1]
    THEN PopUnconflicted(Tail(deque), conflict, Append(popped, lines[deque[1] + 1]))
    ELSE [deque |-> deque, popped |-> popped]

\* The for loop over conflicts, from the lines before the first conflict on.
RECURSIVE AddConflicts(_, _, _, _)
AddConflicts(cs, deque, ours, theirs) ==
    IF cs = << >> THEN [ours |-> ours, theirs |-> theirs]
    ELSE LET conflict == Head(cs)
             p == PopUnconflicted(deque, conflict, << >>)
         IN  AddConflicts(Tail(cs), p.deque,
                 ours \o p.popped \o Slice(lines, conflict[1], conflict[2]),
                 theirs \o p.popped \o Slice(lines, conflict[3], conflict[4]))

Rebuilt ==
    LET start == Slice(lines, None, unconflicted_start_until_idx)
        r == AddConflicts(conflicts, unconflicted_line_idxs, start, start)
        rest == Slice(lines, unconflicted_end_from_idx, None)
    IN  [ours |-> r.ours \o rest, theirs |-> r.theirs \o rest]

\* The end of the for loop over lines, and the two lists of lines.
Reconstruct ==
    /\ pc = "scan" /\ idx = Len(lines)
    /\ our_file_lines' = Rebuilt.ours
    /\ their_file_lines' = Rebuilt.theirs
    /\ pc' = "write"
    /\ UNCHANGED << lines, scanVars, our_file, their_file, merged_file, mergeVars, error >>

\* writelines() of our lines to both files.
WriteFiles_OurLinesTwice ==
    /\ pc = "write"
    /\ our_file' = Written(our_file_lines)
    /\ their_file' = Written(our_file_lines)
    /\ pc' = "load"
    /\ UNCHANGED << lines, scanVars, our_file_lines, their_file_lines, merged_file,
                    mergeVars, error >>

\* open(..., "w+") of both files and writelines().
WriteFiles ==
    /\ pc = "write"
    /\ our_file' = Written(our_file_lines)
    /\ their_file' = Written(their_file_lines)
    /\ pc' = "load"
    /\ UNCHANGED << lines, scanVars, our_file_lines, their_file_lines, merged_file,
                    mergeVars, error >>

\* ------------------------------------------------------------------- JSON

\* What iterating over a dict yields: its keys, which are strings.
StrValue == Annotation("<str>", "<str>")

\* The keys of an annotation: "id", when it has one, and "body".
Keys(obj) == (IF obj.id = Missing THEN << >> ELSE <<StrValue>>) \o <<StrValue>>

\* json.load(): an array of objects, or one object; anything else is no JSON.
JsonLoad(text) ==
    IF Len(text) = 1 /\ text[1].tok = "{"
    THEN [ok |-> TRUE, value |-> Keys(text[1].obj)]
    ELSE IF /\ Len(text) >= 2
            /\ text[1].tok = "["
            /\ text[Len(text)].tok = "]"
            /\ \A i \in 2..(Len(text) - 1) : text[i].tok = "{"
    THEN [ok |-> TRUE, value |-> [i \in 1..(Len(text) - 2) |-> text[i + 1].obj]]
    ELSE [ok |-> FALSE, value |-> << >>]

\* json.dump(): the array, one object a line.
JsonDump(annotations) == <<OpenLine>> \o ObjLines(annotations) \o <<CloseLine>>

LoadJson ==
    /\ pc = "load"
    /\ JsonLoad(our_file.content).ok /\ JsonLoad(their_file.content).ok
    /\ our_annotations' = JsonLoad(our_file.content).value
    /\ their_annotations' = JsonLoad(their_file.content).value
    /\ pc' = "ids"
    /\ UNCHANGED << lines, scanVars, fileVars, their_new_annotations,
                    new_idx, scan_idx, was_added, stdout, error >>

LoadJsonFails ==
    /\ pc = "load"
    /\ ~(JsonLoad(our_file.content).ok /\ JsonLoad(their_file.content).ok)
    /\ error' = Exception("JSONDecodeError", << >>)
    /\ pc' = "failed"
    /\ UNCHANGED << lines, scanVars, fileVars, mergeVars >>

\* ------------------------------------------------------------- comparison

\* annotation["id"][-42:]
IdOf(annotation) == Last42(annotation.id)

IdsOf(annotations) == { IdOf(annotations[i]) : i \in 1..Len(annotations) }

\* The exception of annotation["id"], or NoError.
IdError(annotation) ==
    IF annotation = StrValue
    THEN Exception("TypeError", <<"string indices must be integers">>)
    ELSE IF annotation.id = Missing THEN Exception("KeyError", <<"id">>)
    ELSE NoError

RECURSIVE FirstIdError(_)
FirstIdError(annotations) ==
    IF annotations = << >> THEN NoError
    ELSE IF IdError(Head(annotations)) # NoError THEN IdError(Head(annotations))
    ELSE FirstIdError(Tail(annotations))

IdsError == FirstIdError(our_annotations \o their_annotations)

their_new_annotation_ids == IdsOf(their_annotations) \ IdsOf(our_annotations)

both_annotation_ids == IdsOf(their_annotations) \cap IdsOf(our_annotations)

\* The new IDs from the whole id, without [-42:].
IsNew_WholeId(annotation) ==
    annotation.id \notin { our_annotations[i].id : i \in 1..Len(our_annotations) }

IsNew(annotation) == IdOf(annotation) \in their_new_annotation_ids

\* The two lists of IDs and their new annotations.
NewAnnotations ==
    /\ pc = "ids"
    /\ IdsError = NoError
    /\ their_new_annotations' = SelectSeq(their_annotations, IsNew)
    /\ pc' = "compare"
    /\ UNCHANGED << lines, scanVars, fileVars, our_annotations, their_annotations,
                    new_idx, scan_idx, was_added, stdout, error >>

NewAnnotationsFails ==
    /\ pc = "ids"
    /\ IdsError # NoError
    /\ error' = IdsError
    /\ pc' = "failed"
    /\ UNCHANGED << lines, scanVars, fileVars, mergeVars >>

MismatchMessage(id) ==
    <<"WARNING: Mismatch in annotations with ID ", id, ", check manually">>

\* The comparison with == in the place of !=.
Mismatch_OnEqual(our_annotation, their_annotation) ==
    /\ IdOf(their_annotation) = IdOf(our_annotation)
    /\ their_annotation = our_annotation

\* Whether the inner loop reports their_annotation against our_annotation.
Mismatch(our_annotation, their_annotation) ==
    /\ IdOf(their_annotation) = IdOf(our_annotation)
    /\ their_annotation # our_annotation

\* The nested loops from our annotation number i on: what they print and
\* what they append to their new annotations.
RECURSIVE CompareFrom(_)
CompareFrom(i) ==
    IF i > Len(our_annotations) THEN [printed |-> << >>, appended |-> << >>]
    ELSE LET our_annotation == our_annotations[i]
             hits == IF IdOf(our_annotation) \notin both_annotation_ids THEN << >>
                     ELSE SelectSeq(their_annotations,
                                    LAMBDA t : Mismatch(our_annotation, t))
             rest == CompareFrom(i + 1)
         IN  [printed |-> [j \in 1..Len(hits) |-> MismatchMessage(IdOf(our_annotation))]
                              \o rest.printed,
              appended |-> hits \o rest.appended]

\* The mismatched annotations put before the new ones.
Compare_MismatchedFirst ==
    /\ pc = "compare"
    /\ stdout' = stdout \o CompareFrom(1).printed
    /\ their_new_annotations' = CompareFrom(1).appended \o their_new_annotations
    /\ our_annotations' = Reverse(our_annotations)
    /\ new_idx' = 0
    /\ pc' = "insert"
    /\ UNCHANGED << lines, scanVars, fileVars, their_annotations,
                    scan_idx, was_added, error >>

\* The comparison of the annotations in both files, and our_annotations.reverse().
Compare ==
    /\ pc = "compare"
    /\ stdout' = stdout \o CompareFrom(1).printed
    /\ their_new_annotations' = their_new_annotations \o CompareFrom(1).appended
    /\ our_annotations' = Reverse(our_annotations)
    /\ new_idx' = 0
    /\ pc' = "insert"
    /\ UNCHANGED << lines, scanVars, fileVars, their_annotations,
                    scan_idx, was_added, error >>

\* -------------------------------------------------------------- insertion

InInsert == pc = "insert" /\ new_idx < Len(their_new_annotations)

their_new_annotation == their_new_annotations[new_idx + 1]

\* The start of one pass of the outer loop.
BeginInsert ==
    /\ InInsert
    /\ was_added' = FALSE
    /\ scan_idx' = 0
    /\ pc' = "scan_ours"
    /\ UNCHANGED << lines, scanVars, fileVars, our_annotations, their_annotations,
                    their_new_annotations, new_idx, stdout, error >>

InScanOurs == pc = "scan_ours" /\ scan_idx < Len(our_annotations)

our_annotation == our_annotations[scan_idx + 1]

\* annotation["body"]["properties"]["system"][CATMA_MARKUPTIMESTAMP_UUID][0]
HasTimestamp(annotation) == annotation.ts # Missing

Timestamp(annotation) == fromisoformat(annotation.ts)

\* The condition with >= in the place of <=.
NotNewer_Reversed(ours, theirs) == Timestamp(ours) >= Timestamp(theirs)

\* The condition with < in the place of <=.
NotNewer_Strict(ours, theirs) == Timestamp(ours) < Timestamp(theirs)

\* The condition of the if statement of the inner loop.
NotNewer(ours, theirs) == Timestamp(ours) <= Timestamp(theirs)

TimestampsRead == HasTimestamp(our_annotation) /\ HasTimestamp(their_new_annotation)

\* The if branch: insert, and break. was_added holds, so the check that
\* follows the loop passes.
ScanInsert ==
    /\ InScanOurs
    /\ TimestampsRead
    /\ NotNewer(our_annotation, their_new_annotation)
    /\ our_annotations' = InsertAt(our_annotations, scan_idx, their_new_annotation)
    /\ was_added' = TRUE
    /\ new_idx' = new_idx + 1
    /\ pc' = "insert"
    /\ UNCHANGED << lines, scanVars, fileVars, their_annotations,
                    their_new_annotations, scan_idx, stdout, error >>

\* The else branch at the last index: append. The loop goes on.
ScanAppend ==
    /\ InScanOurs
    /\ TimestampsRead
    /\ ~NotNewer(our_annotation, their_new_annotation)
    /\ scan_idx = Len(our_annotations) - 1
    /\ our_annotations' = Append(our_annotations, their_new_annotation)
    /\ was_added' = TRUE
    /\ scan_idx' = scan_idx + 1
    /\ UNCHANGED << lines, pc, scanVars, fileVars, their_annotations,
                    their_new_annotations, new_idx, stdout, error >>

\* The else branch at any other index.
ScanAdvance ==
    /\ InScanOurs
    /\ TimestampsRead
    /\ ~NotNewer(our_annotation, their_new_annotation)
    /\ scan_idx # Len(our_annotations) - 1
    /\ scan_idx' = scan_idx + 1
    /\ UNCHANGED << lines, pc, scanVars, fileVars, our_annotations, their_annotations,
                    their_new_annotations, new_idx, was_added, stdout, error >>

\* One of the two annotations has no timestamp.
ScanTimestampFails ==
    /\ InScanOurs
    /\ ~TimestampsRead
    /\ error' = Exception("KeyError", <<"CATMA_54A5F93F-5333-3F0D-92F7-7BD5930DB9E6">>)
    /\ pc' = "failed"
    /\ UNCHANGED << lines, scanVars, fileVars, mergeVars >>

\* The check of was_added with another pass for the annotation in the place
\* of the raise.
InsertionCheck_Retries ==
    /\ pc = "scan_ours" /\ scan_idx >= Len(our_annotations)
    /\ new_idx' = IF was_added THEN new_idx + 1 ELSE new_idx
    /\ pc' = "insert"
    /\ UNCHANGED << lines, scanVars, fileVars, our_annotations, their_annotations,
                    their_new_annotations, scan_idx, was_added, stdout, error >>

\* The inner loop has run out of annotations: the check of was_added.
InsertionCheck ==
    /\ pc = "scan_ours" /\ scan_idx >= Len(our_annotations)
    /\ IF was_added
       THEN /\ new_idx' = new_idx + 1
            /\ pc' = "insert"
            /\ error' = error
       ELSE /\ error' = Raise(Exception("str", <<"Failed to add annotation">>))
            /\ pc' = "failed"
            /\ new_idx' = new_idx
    /\ UNCHANGED << lines, scanVars, fileVars, our_annotations, their_annotations,
                    their_new_annotations, scan_idx, was_added, stdout >>

\* The merged file without the second our_annotations.reverse().
WriteMerged_NotReversed ==
    /\ pc = "insert" /\ new_idx >= Len(their_new_annotations)
    /\ our_annotations' = our_annotations
    /\ merged_file' = Written(JsonDump(our_annotations))
    /\ pc' = "done"
    /\ UNCHANGED << lines, scanVars, our_file_lines, their_file_lines, our_file,
                    their_file, their_annotations, their_new_annotations,
                    new_idx, scan_idx, was_added, stdout, error >>

\* The end of the outer loop: our_annotations.reverse() and the merged file.
WriteMerged ==
    /\ pc = "insert" /\ new_idx >= Len(their_new_annotations)
    /\ our_annotations' = Reverse(our_annotations)
    /\ merged_file' = Written(JsonDump(Reverse(our_annotations)))
    /\ pc' = "done"
    /\ UNCHANGED << lines, scanVars, our_file_lines, their_file_lines, our_file,
                    their_file, their_annotations, their_new_annotations,
                    new_idx, scan_idx, was_added, stdout, error >>

\* ---------------------------------------------------------- specification

Next ==
    \/ ScanHead
    \/ ScanSeparator
    \/ ScanMaster
    \/ ScanOther
    \/ ScanUnexpected
    \/ Reconstruct
    \/ WriteFiles
    \/ LoadJson
    \/ LoadJsonFails
    \/ NewAnnotations
    \/ NewAnnotationsFails
    \/ Compare
    \/ BeginInsert
    \/ ScanInsert
    \/ ScanAppend
    \/ ScanAdvance
    \/ ScanTimestampFails
    \/ InsertionCheck
    \/ WriteMerged

Spec == Init /\ [][Next]_vars

\* The run is sequential: a step that can be taken is taken.
FairSpec == Spec /\ WF_vars(Next)

\* ------------------------------------------------------------- properties

\* Our annotations as loaded: our_file stays as written, our_annotations is
\* reversed and inserted into.
Ours == JsonLoad(our_file.content).value

Theirs == their_annotations

\* The merged annotations, read back from merged_file.
Merged == JsonLoad(merged_file.content).value

Count(s, x) == Cardinality({ i \in 1..Len(s) : s[i] = x })

Contains(s, x) == \E i \in 1..Len(s) : s[i] = x

UniqueIds(s) == \A i, j \in 1..Len(s) : i # j => IdOf(s[i]) # IdOf(s[j])

AllTimestamped(s) == \A i \in 1..Len(s) : HasTimestamp(s[i])

Ascending(s) == \A i \in 1..(Len(s) - 1) : Timestamp(s[i]) <= Timestamp(s[i + 1])

\* A printed line that names the ID.
Reports(message, id) == \E p \in 1..Len(message) : message[p] = id

Reported(id) == \E k \in 1..Len(stdout) : Reports(stdout[k], id)

\* Ours and theirs hold the same ID with different content.
Conflicting(o, t) == IdOf(o) = IdOf(t) /\ o # t

\* C1: when resolve() has completed, for every annotation of ours and every
\* annotation of theirs with the same ID and different content, the merged
\* file holds both, and a printed line names the ID.
C1_BothVersionsKept ==
    pc = "done" =>
        \A i \in 1..Len(Ours), j \in 1..Len(Theirs) :
            Conflicting(Ours[i], Theirs[j]) =>
                /\ Contains(Merged, Ours[i])
                /\ Contains(Merged, Theirs[j])
                /\ Reported(IdOf(Ours[i]))

C1_Witness ==
    /\ pc = "done"
    /\ UniqueIds(Ours) /\ UniqueIds(Theirs)
    /\ \E i \in 1..Len(Ours), j \in 1..Len(Theirs) :
           /\ Conflicting(Ours[i], Theirs[j])
           /\ Contains(Merged, Ours[i]) /\ Contains(Merged, Theirs[j])

\* C2: when our annotations are in ascending order of timestamp, the merged
\* annotations are: no annotation is followed by one with an earlier timestamp,
\* in whatever order their annotations were inserted.
C2_MergedAscending ==
    (pc = "done" /\ AllTimestamped(Ours) /\ Ascending(Ours)) =>
        AllTimestamped(Merged) /\ Ascending(Merged)

\* Two annotations were inserted, the later one first, into ours.
C2_Witness ==
    /\ pc = "done"
    /\ Len(Ours) >= 1 /\ AllTimestamped(Ours) /\ Ascending(Ours)
    /\ Len(their_new_annotations) >= 2
    /\ Timestamp(their_new_annotations[1]) > Timestamp(their_new_annotations[2])
    /\ Len(Merged) >= 3

\* C3: the merged annotations are our annotations and the inserted ones, each as
\* often as it occurs there, and no more: an inserted annotation older than all
\* of ours included.
C3_EachRecordOnce ==
    pc = "done" =>
        \A x \in Annotations :
            Count(Merged, x) = Count(Ours, x) + Count(their_new_annotations, x)

\* C4: a page without a marker line is reconstructed as it is, on both sides.
C4_NoMarkersIdentity ==
    (pc # "scan" /\ \A i \in 1..Len(lines) : ~StartsWithAny(lines[i])) =>
        our_file_lines = lines /\ their_file_lines = lines

Inserted(x) == Contains(their_new_annotations, x)

\* C5 as claimed: an inserted annotation with the timestamp of one of ours
\* comes before it in the merged annotations.
C5_InsertedBeforeEqual ==
    (pc = "done" /\ UniqueIds(Ours) /\ UniqueIds(Theirs) /\ AllTimestamped(Merged)) =>
        \A p, q \in 1..Len(Merged) :
            ( /\ Contains(Ours, Merged[p])
              /\ Inserted(Merged[q])
              /\ Timestamp(Merged[p]) = Timestamp(Merged[q]) ) => q < p

\* C5 as amended: an inserted annotation with the timestamp of one of ours
\* comes after it in the merged annotations, and inserted annotations with
\* equal timestamps are in the order of their insertion.
C5_InsertedAfterEqual ==
    (pc = "done" /\ UniqueIds(Ours) /\ UniqueIds(Theirs) /\ AllTimestamped(Merged)) =>
        /\ \A p, q \in 1..Len(Merged) :
               ( /\ Contains(Ours, Merged[p])
                 /\ Inserted(Merged[q])
                 /\ Timestamp(Merged[p]) = Timestamp(Merged[q]) ) => p < q
        /\ \A i, j \in 1..Len(their_new_annotations) :
               ( /\ i < j
                 /\ Timestamp(their_new_annotations[i])
                        = Timestamp(their_new_annotations[j]) ) =>
                   \A p, q \in 1..Len(Merged) :
                       ( /\ Merged[p] = their_new_annotations[i]
                         /\ Merged[q] = their_new_annotations[j] ) => p < q

\* base [A@t1], incoming [B@t1, C@t1]: merged [A@t1, B@t1, C@t1].
C5_Witness ==
    LET A == Annotation("CATMA_X", "2020-01-01T10:00:00")
        B == Annotation("CATMA_Y", "2020-01-01T10:00:00")
        C == Annotation("CATMA_Z", "2020-01-01T10:00:00")
    IN  /\ pc = "done"
        /\ Ours = <<A>>
        /\ their_new_annotations = <<B, C>>
        /\ Merged = <<A, B, C>>

\* The for loop over lines has ended without a raise.
ScanCompleted == idx = Len(lines)

\* The page ends within a conflict: after "<<<<<<<" or after "=======".
OpenAtEnd == ScanCompleted /\ next_expected_marker # HEAD_MARKER

NothingWritten == ~our_file.written /\ ~their_file.written /\ ~merged_file.written

\* C6: a run on a page that ends within a conflict has failed in the scan of
\* the markers, with none of the three files written.
C6_OpenBlockRejected ==
    (OpenAtEnd /\ pc \in {"failed", "done"}) =>
        /\ pc = "failed"
        /\ error.type \notin {"JSONDecodeError", "KeyError"}
        /\ NothingWritten

\* The markers are as expected up to the end of the page.
GrammarSatisfied == ScanCompleted /\ next_expected_marker = HEAD_MARKER

\* The run was ended by a side that is no JSON array of annotations, or by an
\* annotation without id or timestamp.
ParseFailure ==
    /\ pc = "failed"
    /\ \/ error.type \in {"JSONDecodeError", "KeyError"}
       \/ error = Exception("TypeError", <<"string indices must be integers">>)

C8_ErrorNamesLineAndMarker ==
    (pc = "failed" /\ ~ScanCompleted) =>
        /\ UnexpectedMarker
        /\ Reports(error.args, ToString(idx + 1))
        /\ Reports(error.args, next_expected_marker)
        /\ NothingWritten

AfterCompare == pc \in {"insert", "scan_ours", "done"}

ReportCount(id) == Cardinality({ k \in 1..Len(stdout) : Reports(stdout[k], id) })

\* C9: with no ID twice in ours or in theirs, each of their annotations is of
\* one kind: equal to ours of that ID, and then neither inserted nor reported;
\* different from ours of that ID, and then inserted once and reported once;
\* of an ID ours does not have, and then inserted once and not reported.
\* Nothing else is inserted, and a completed run has every inserted annotation
\* in the merged file and the equal ones once.
C9_PartitionComplete ==
    (AfterCompare /\ UniqueIds(Ours) /\ UniqueIds(Theirs)) =>
        /\ \A j \in 1..Len(Theirs) :
               LET t == Theirs[j]
                   present == IdOf(t) \in IdsOf(Ours)
                   equal == Contains(Ours, t)
               IN  /\ (present /\ equal) =>
                           /\ Count(their_new_annotations, t) = 0
                           /\ ReportCount(IdOf(t)) = 0
                           /\ pc = "done" => Count(Merged, t) = 1
                   /\ (present /\ ~equal) =>
                           /\ Count(their_new_annotations, t) = 1
                           /\ ReportCount(IdOf(t)) = 1
                           /\ pc = "done" => Contains(Merged, t)
                   /\ ~present =>
                           /\ Count(their_new_annotations, t) = 1
                           /\ ReportCount(IdOf(t)) = 0
                           /\ pc = "done" => Contains(Merged, t)
        /\ \A k \in 1..Len(their_new_annotations) :
               Contains(Theirs, their_new_annotations[k])

\* A completed run with an annotation of each of the three kinds.
C9_Witness ==
    /\ pc = "done" /\ UniqueIds(Ours) /\ UniqueIds(Theirs)
    /\ \E j \in 1..Len(Theirs) : Contains(Ours, Theirs[j])
    /\ \E j \in 1..Len(Theirs) :
           IdOf(Theirs[j]) \in IdsOf(Ours) /\ ~Contains(Ours, Theirs[j])
    /\ \E j \in 1..Len(Theirs) : IdOf(Theirs[j]) \notin IdsOf(Ours)

\* C10: every printed line is "Mismatch in annotations with ID " and the ID of
\* one of our annotations, and nothing else.
C10_MessageExact ==
    \A k \in 1..Len(stdout) :
        \E i \in 1..Len(Ours) :
            stdout[k] = <<"Mismatch in annotations with ID ", IdOf(Ours[i])>>

\* C11: when nothing is to be inserted, the merged annotations are ours, the
\* same annotations in the same order, whatever ours is.
C11_NothingInsertedKeepsOurs ==
    (pc = "done" /\ their_new_annotations = << >>) => Merged = Ours

\* Nothing was inserted into two annotations of ours.
C11_Witness ==
    /\ pc = "done"
    /\ their_new_annotations = << >>
    /\ Len(Ours) >= 2 /\ Ours[1] # Ours[2]
    /\ Merged = Ours

\* C12: the inner loop never ends with was_added false: the check after it
\* never fails, whatever ours is, the empty list included.
C12_ScanAlwaysAdds ==
    (pc = "scan_ours" /\ scan_idx >= Len(our_annotations)) => was_added

\* The lines of one side: the lines outside the conflicts and the lines of
\* that side's part of each conflict, without the marker lines. place is
\* "common", "ours" or "theirs".
RECURSIVE SideOf(_, _, _)
SideOf(ls, place, side) ==
    IF ls = << >> THEN << >>
    ELSE IF StartsWith(Head(ls), HEAD_MARKER) THEN SideOf(Tail(ls), "ours", side)
    ELSE IF StartsWith(Head(ls), SEPARATOR) THEN SideOf(Tail(ls), "theirs", side)
    ELSE IF StartsWith(Head(ls), MASTER_MARKER) THEN SideOf(Tail(ls), "common", side)
    ELSE IF place \in {"common", side} THEN <<Head(ls)>> \o SideOf(Tail(ls), place, side)
    ELSE SideOf(Tail(ls), place, side)

\* C13: for a page with one or more conflicts and the markers as expected, our
\* lines are the page without its marker lines and without their part of each
\* conflict, their lines are the page without its marker lines and without our
\* part of each conflict, in the order of the page.
C13_SidesReconstructed ==
    (pc # "scan" /\ GrammarSatisfied /\ Len(conflicts) >= 1) =>
        /\ our_file_lines = SideOf(lines, "common", "ours")
        /\ their_file_lines = SideOf(lines, "common", "theirs")
        /\ \A i \in 1..Len(our_file_lines) : ~StartsWithAny(our_file_lines[i])
        /\ \A i \in 1..Len(their_file_lines) : ~StartsWithAny(their_file_lines[i])

\* Two conflicts with a line of both sides between them and sides that differ.
C13_Witness ==
    /\ pc = "load"
    /\ GrammarSatisfied
    /\ Len(conflicts) = 2
    /\ Len(unconflicted_line_idxs) >= 1
    /\ our_file.content # their_file.content
    /\ Len(our_file.content) >= 4

IsAbsent(t) == IdOf(t) \notin IdsOf(Ours)

IsMismatched(t) == \E i \in 1..Len(Ours) : Conflicting(Ours[i], t)

NewCount == Len(SelectSeq(Theirs, IsAbsent))

\* C14: the annotations to insert are their annotations of an ID that ours
\* does not have, in their order in theirs, and after them the mismatched
\* ones: all of them, and nothing else.
C14_NewThenMismatched ==
    AfterCompare =>
        /\ Len(their_new_annotations) >= NewCount
        /\ Slice(their_new_annotations, 0, NewCount) = SelectSeq(Theirs, IsAbsent)
        /\ \A k \in (NewCount + 1)..Len(their_new_annotations) :
               /\ IsMismatched(their_new_annotations[k])
               /\ Contains(Theirs, their_new_annotations[k])
        /\ \A j \in 1..Len(Theirs) :
               IsMismatched(Theirs[j]) =>
                   \E k \in (NewCount + 1)..Len(their_new_annotations) :
                       their_new_annotations[k] = Theirs[j]

\* Theirs has a mismatched annotation before a new one.
C14_Witness ==
    /\ AfterCompare
    /\ Len(Theirs) = 2
    /\ IsMismatched(Theirs[1]) /\ IsAbsent(Theirs[2])
    /\ their_new_annotations = <<Theirs[2], Theirs[1]>>

Terminated == pc \in {"done", "failed"}

InInsertion == pc \in {"insert", "scan_ours"}

\* The annotations the outer loop has not finished with.
Remaining == Len(their_new_annotations) - new_idx

\* What is left of the pass for one annotation: the elements the inner scan
\* has not visited, counted twice, and one more while nothing was added; an
\* append adds an element to visit and takes that one away. Before the scan
\* starts it is above every value of the scan.
ScanLeft ==
    IF pc = "insert" THEN 2 * Len(our_annotations) + 2
    ELSE 2 * (Len(our_annotations) - scan_idx) + (IF was_added THEN 0 ELSE 1)

\* C15: the insertion ends. The pair (Remaining, ScanLeft) of naturals
\* decreases in the lexicographic order with every step of the outer loop and
\* of the inner scan, appends to the scanned list included, until the run is
\* at the merged file or at a failure, and no step leaves the loops at a
\* place from which the run cannot go on.
C15_InsertionTerminates ==
    [][ /\ InInsertion =>
            \/ Terminated'
            \/ /\ InInsertion'
               /\ \/ Remaining' < Remaining
                  \/ Remaining' = Remaining /\ ScanLeft' < ScanLeft
        /\ InInsertion' =>
            /\ Remaining' \in Nat /\ ScanLeft' \in Nat
            /\ (ENABLED Next)' ]_vars

\* A completed run in which the scan appended to the list it was scanning.
C15_Witness ==
    /\ pc = "done"
    /\ Len(their_new_annotations) >= 2
    /\ \E k \in 1..Len(their_new_annotations) :
           Count(Merged, their_new_annotations[k]) >= 2

====
